---- MODULE Spec2Model ----
(***************************************************************************)
(* Credential / authentication subsystem of the school-directory backend:  *)
(* models/User.js (schema, pre-save hook, comparePassword), routes/auth.js *)
(* (signup, login) and server.js (startup, authenticateToken, the two      *)
(* protected routes).                                                      *)
(*                                                                         *)
(* Strings are sequences of one-character strings.  A password is kept as  *)
(* the number of characters it holds of each class the hook's regular      *)
(* expressions look at (A-Z, a-z, 0-9, anything else); its length is the   *)
(* sum.  Time is the wall clock in milliseconds (Date.now()).              *)
(***************************************************************************)
EXTENDS Integers, Sequences, FiniteSets, Bags, TLC

VARIABLES
    phase,      \* "starting" | "listening" | "exited"       (server.js process)
    db,         \* "none" | "connecting" | "connected"       (mongoose connection)
    mongoUri,   \* process.env.MONGO_URI: "absent" or "set"
    jwtSecret,  \* process.env.JWT_SECRET: "absent" or a key
    clock,      \* Date.now() in milliseconds
    ticks,      \* number of clock advances so far (bounds the run)
    users,      \* the users collection: a set of account documents
    pending,    \* bag of signup requests suspended between findOne and save
    held,       \* the token a client kept from an earlier answer, with its issue time
    last        \* the latest answered request, with its answer

vars == <<phase, db, mongoUri, jwtSecret, clock, ticks, users, pending, held, last>>

-----------------------------------------------------------------------------
(* Bounds of the model *)

MaxPending == 2     \* signup requests in flight at once
MaxTicks == 2       \* clock advances in one run

(* Program constants *)

MinLength == 8          \* User.js:22 and :44
MaxLength == 128        \* User.js:23
SaltRounds == 12        \* User.js:68
TTLSeconds == 604800    \* expiresIn: '7d' (auth.js:35, :96)

\* a bcrypt hash string: 29 characters of version, cost and salt, 31 of digest
HashLength == 29 + 31
TTLms == TTLSeconds * 1000
\* the clock advances by half a second or by half a second less than the TTL
TickSteps == {500, TTLms - 500}
MaxClock == 2 * TTLms

-----------------------------------------------------------------------------
(* Values *)

None == [t |-> "none"]

\* a string password with u upper-case, l lower-case, d digit and s other characters
Pw(u, l, d, s) == [t |-> "str", U |-> u, L |-> l, D |-> d, S |-> s]
\* a JSON number sent as the password, with n decimal digits
NumPw(n) == [t |-> "num", digits |-> n]

PwLength(p) == p.U + p.L + p.D + p.S

\* JavaScript truthiness of a request field (auth.js:14, :77): a missing field
\* and the empty string are both falsy and are both written as the empty string
Falsy(p) ==
    \/ p.t = "str" /\ PwLength(p) = 0
    \/ p.t = "num" /\ p.digits = 0

\* Mongoose casts the password path (type: String) to a string
CastString(p) == IF p.t = "num" THEN Pw(0, 0, p.digits, 0) ELSE p

-----------------------------------------------------------------------------
(* String helpers: trim, lowercase, the e-mail pattern *)

IsSpace(c) == c = " "

RECURSIVE TrimLeft(_)
TrimLeft(s) == IF s # <<>> /\ IsSpace(Head(s)) THEN TrimLeft(Tail(s)) ELSE s

RECURSIVE TrimRight(_)
TrimRight(s) ==
    IF s # <<>> /\ IsSpace(s[Len(s)]) THEN TrimRight(SubSeq(s, 1, Len(s) - 1)) ELSE s

Trim(s) == TrimRight(TrimLeft(s))

LowerChar(c) ==
    CASE c = "A" -> "a"
      [] c = "B" -> "b"
      [] c = "X" -> "x"
      [] OTHER -> c

ToLowerCase(s) == [i \in 1..Len(s) |-> LowerChar(s[i])]

\* /^\S+@\S+\.\S+$/  (User.js:17)
MatchesEmail(s) ==
    /\ \A i \in 1..Len(s) : ~IsSpace(s[i])
    /\ \E i, j \in 1..Len(s) :
          /\ 1 < i /\ i + 1 < j /\ j < Len(s)
          /\ s[i] = "@" /\ s[j] = "."

\* the setters of the name path (trim) and of the email path (trim, lowercase);
\* Mongoose applies a path's setters to documents and to query filters alike
SetName(s) == Trim(s)
SetEmail(s) == ToLowerCase(Trim(s))

-----------------------------------------------------------------------------
(* models/User.js: schema validation, pre-save hook, comparePassword *)

MsgNameRequired == "Path name is required."
MsgEmailRequired == "Path email is required."
MsgEmailMatch == "Please enter a valid email address."
MsgPwRequired == "Path password is required."
MsgPwMin == "Password must be at least 8 characters long."
MsgPwMax == "Password cannot exceed 128 characters."

HookLen == "Must be at least 8 characters."
HookUpper == "Must contain at least one uppercase letter (A-Z)."
HookLower == "Must contain at least one lowercase letter (a-z)."
HookDigit == "Must contain at least one number (0-9)."
HookSpecial == "Must contain at least one special character."

Opt(cond, msg) == IF cond THEN <<msg>> ELSE <<>>

\* the messages of the ValidationError that document validation raises, in
\* schema order; validation runs before every pre-save hook
SchemaErrors(doc) ==
       Opt(doc.name = <<>>, MsgNameRequired)
    \o Opt(doc.email = <<>>, MsgEmailRequired)
    \o Opt(doc.email # <<>> /\ ~MatchesEmail(doc.email), MsgEmailMatch)
    \o Opt(PwLength(doc.password) = 0, MsgPwRequired)
    \o Opt(PwLength(doc.password) > 0 /\ PwLength(doc.password) < MinLength, MsgPwMin)
    \o Opt(PwLength(doc.password) > MaxLength, MsgPwMax)

\* the hook without its digit test
HookErrorsNoDigit(password) ==
       Opt(PwLength(password) < MinLength, HookLen)
    \o Opt(password.U = 0, HookUpper)
    \o Opt(password.L = 0, HookLower)
    \o Opt(password.S = 0, HookSpecial)

\* the errors array of the pre-save hook (User.js:42-58)
HookErrors(password) ==
       Opt(PwLength(password) < MinLength, HookLen)
    \o Opt(password.U = 0, HookUpper)
    \o Opt(password.L = 0, HookLower)
    \o Opt(password.D = 0, HookDigit)
    \o Opt(password.S = 0, HookSpecial)

\* bcrypt.hash(password, saltRounds) with the salt it drew; a stored hash's salt is
\* named by the number of hashes stored before it, so no two stored salts agree
BcryptHash(password, salt) ==
    [t |-> "bcrypt", rounds |-> SaltRounds, salt |-> salt, secret |-> password]

\* bcrypt.compare(candidate, stored): "throw" | "true" | "false"
BcryptCompare(candidate, stored) ==
    IF candidate.t # "str" THEN "throw"               \* Illegal arguments
    ELSE IF stored.t = "text" /\ stored.length # HashLength THEN "false"
    ELSE IF stored.t = "text" THEN "throw"            \* Invalid salt version
    ELSE IF candidate = stored.secret THEN "true" ELSE "false"

\* userSchema.methods.comparePassword: rethrows what bcrypt.compare throws
ComparePassword(user, candidate) == BcryptCompare(candidate, user.password)

-----------------------------------------------------------------------------
(* jsonwebtoken *)

\* Math.floor(Date.now() / 1000)
NowSeconds == clock \div 1000

\* the JSON form of an ObjectId in a token payload or a response body
ToHexString(id) == [hex |-> id]

\* jwt.sign({id}, secret, {expiresIn: '7d'}): None stands for the thrown
\* "secretOrPrivateKey must have a value"
JwtSign(id, secret) ==
    IF secret = "absent" THEN None
    ELSE LET payload == [id |-> ToHexString(id), iat |-> NowSeconds,
                         exp |-> NowSeconds + TTLSeconds]
         IN [t |-> "jwt", payload |-> payload, sig |-> [over |-> payload, key |-> secret]]

\* a verification that still accepts a token in the second it expires
JwtVerifyLate(token, secret) ==
    IF token.t # "jwt" THEN [err |-> "JsonWebTokenError", user |-> None]
    ELSE IF secret = "absent" THEN [err |-> "JsonWebTokenError", user |-> None]
    ELSE IF token.sig # [over |-> token.payload, key |-> secret]
         THEN [err |-> "JsonWebTokenError", user |-> None]
    ELSE IF NowSeconds > token.payload.exp
         THEN [err |-> "TokenExpiredError", user |-> None]
    ELSE [err |-> "null", user |-> token.payload]

\* jwt.verify(token, secret, callback): the callback's (err, user)
JwtVerify(token, secret) ==
    IF token.t # "jwt" THEN [err |-> "JsonWebTokenError", user |-> None]
    ELSE IF secret = "absent" THEN [err |-> "JsonWebTokenError", user |-> None]
    ELSE IF token.sig # [over |-> token.payload, key |-> secret]
         THEN [err |-> "JsonWebTokenError", user |-> None]
    ELSE IF NowSeconds >= token.payload.exp
         THEN [err |-> "TokenExpiredError", user |-> None]
    ELSE [err |-> "null", user |-> token.payload]

-----------------------------------------------------------------------------
(* Requests the clients send *)

Canonical == <<"a", "@", "b", ".", "x">>
Emails == {
    Canonical,
    <<" ", "A", "@", "B", ".", "x", " ">>,   \* the same identity, other case, padded
    <<"x", "@", "b", ".", "x">>,             \* another identity
    <<"a", "b">>,                            \* not e-mail shaped
    <<>> }                                   \* missing

Names == { <<"A">>, <<" ">>, <<>> }

Strong == Pw(1, 5, 1, 1)          \* 8 characters, every class
OtherStrong == Pw(4, 2, 1, 1)
Passwords == {
    Strong,
    Pw(0, 4, 0, 0),               \* 4 characters, lower case only
    Pw(1, 4, 1, 1),               \* 7 characters, every class
    Pw(4, 4, 0, 1),               \* 9 characters, no digit
    Pw(0, 0, 8, 0),               \* 8 characters, digits only
    Pw(4, 4, 1, 0),               \* 9 characters, no special character
    Pw(126, 1, 1, 0),             \* 128 characters, no special character
    Pw(126, 1, 1, 1),             \* 129 characters, every class
    Pw(126, 1, 0, 2),             \* 129 characters, no digit
    Pw(0, 0, 0, 0) }              \* missing

\* signup bodies: the canonical one with at most one field changed
SignupBodies ==
    { b \in [name : Names, email : Emails, password : Passwords] :
        Cardinality({f \in {"name", "email", "password"} :
            b[f] # [name |-> <<"A">>, email |-> Canonical, password |-> Strong][f]}) <= 1 }

LoginBodies ==
    [email : {Canonical, <<"x", "@", "b", ".", "x">>},
     password : {Strong, OtherStrong, NumPw(8)}]
    \cup {[email |-> <<" ", "A", "@", "B", ".", "x", " ">>, password |-> Strong],
          [email |-> Canonical, password |-> Pw(0, 0, 0, 0)],
          [email |-> <<>>, password |-> Strong]}

\* Authorization header atoms: a space, a word, a token
Sp == [c |-> "sp"]
Word(w) == [c |-> "word", w |-> w]
Tok(token) == [c |-> "tok", tok |-> token]
Junk == [t |-> "junk"]

NoHeader == [present |-> FALSE, value |-> <<>>]
Header(v) == [present |-> TRUE, value |-> v]

\* a token of the shape the server issues, signed with a key the server does not hold
Forged == LET payload == [id |-> ToHexString(1), iat |-> NowSeconds,
                          exp |-> NowSeconds + TTLSeconds]
          IN [t |-> "jwt", payload |-> payload,
              sig |-> [over |-> payload, key |-> "attacker"]]

\* the held token with its subject changed and its signature kept
Tampered(token) == [token EXCEPT !.payload.id = ToHexString(token.payload.id.hex + 1)]

Headers ==
    { NoHeader, Header(<<>>), Header(<<Word("Bearer")>>), Header(<<Word("Bearer"), Sp>>),
      Header(<<Word("Bearer"), Sp, Tok(Junk)>>), Header(<<Word("Bearer"), Sp, Tok(Forged)>>) }
    \cup (IF held = None THEN {}
          ELSE { Header(<<Word("Bearer"), Sp, Tok(held.token)>>),
                 Header(<<Word("Bearer"), Sp, Sp, Tok(held.token)>>),
                 Header(<<Tok(held.token)>>),
                 Header(<<Word("Bearer"), Sp, Tok(Tampered(held.token))>>) })

Routes == {"/api/compare", "/api/ai/chat"}

-----------------------------------------------------------------------------
(* Responses *)

Reply(status, msg) == [status |-> status, msg |-> msg, token |-> None, user |-> None]
ReplyToken(status, token, user) ==
    [status |-> status, msg |-> <<>>, token |-> token,
     user |-> [id |-> ToHexString(user._id), name |-> user.name, email |-> user.email]]

AllFields == Reply(400, <<"Please enter all fields">>)
UserExists == Reply(400, <<"User already exists with this email">>)
InvalidCredentials == Reply(400, <<"Invalid credentials">>)
SignupServerError == Reply(500, <<"Server error during signup">>)
LoginServerError == Reply(500, <<"Server error during login">>)

-----------------------------------------------------------------------------
(* The users collection *)

\* User.findOne({ email }): the filter is cast by the schema, setters included
FindOne(email) == { u \in users : u.email = SetEmail(email) }

\* the unique index on email (User.js:14)
DuplicateKey(doc) == \E u \in users : u.email = doc.email

\* new User({ name, email, password }): setters and casts applied
NewUser(body) ==
    [name |-> SetName(body.name), email |-> SetEmail(body.email),
     password |-> CastString(body.password)]

-----------------------------------------------------------------------------
(* server.js: startup *)

Init ==
    /\ phase = "starting"
    /\ db = "none"
    /\ mongoUri \in {"absent", "set"}
    /\ jwtSecret \in {"absent", "k1"}
    /\ clock = 0
    /\ ticks = 0
    /\ users = {}
    /\ pending = EmptyBag
    /\ held = None
    /\ last = [kind |-> "none"]

\* server.js top level: exit when MONGO_URI is missing, else connect and listen
Startup ==
    /\ phase = "starting"
    /\ IF mongoUri = "absent"
       THEN phase' = "exited" /\ db' = db
       ELSE phase' = "listening" /\ db' = "connecting"
    /\ UNCHANGED <<mongoUri, jwtSecret, clock, ticks, users, pending, held, last>>

\* mongoose.connect(...).then(...)
ConnectOk ==
    /\ phase = "listening" /\ db = "connecting"
    /\ db' = "connected"
    /\ UNCHANGED <<phase, mongoUri, jwtSecret, clock, ticks, users, pending, held, last>>

\* mongoose.connect(...).catch(... process.exit(1))
ConnectFail ==
    /\ phase = "listening" /\ db = "connecting"
    /\ phase' = "exited"
    /\ UNCHANGED <<db, mongoUri, jwtSecret, clock, ticks, users, pending, held, last>>

\* time passes
Tick ==
    /\ ticks < MaxTicks
    /\ \E d \in TickSteps :
          /\ clock + d <= MaxClock
          /\ clock' = clock + d
    /\ ticks' = ticks + 1
    /\ UNCHANGED <<phase, db, mongoUri, jwtSecret, users, pending, held, last>>

-----------------------------------------------------------------------------
(* routes/auth.js: POST /api/auth/signup *)

NoError == [name |-> "none", statusCode |-> 0, code |-> 0, messages |-> <<>>]
ValidationError(messages) ==
    [name |-> "ValidationError", statusCode |-> 0, code |-> 0, messages |-> messages]
WeakPassword(errors) ==
    [name |-> "Error", statusCode |-> 400, code |-> 0,
     messages |-> <<"Password is too weak.">> \o errors]
DuplicateKeyError ==
    [name |-> "MongoServerError", statusCode |-> 0, code |-> 11000, messages |-> <<>>]
SignError == [name |-> "Error", statusCode |-> 0, code |-> 0, messages |-> <<>>]

\* a catch block without the duplicate-key case
SignupCatchNoDuplicate(err) ==
    IF err.name = "ValidationError" THEN Reply(400, err.messages)
    ELSE IF err.statusCode = 400 THEN Reply(400, err.messages)
    ELSE SignupServerError

\* the catch block of the signup handler (auth.js:47-67)
SignupCatch(err) ==
    IF err.name = "ValidationError" THEN Reply(400, err.messages)
    ELSE IF err.statusCode = 400 THEN Reply(400, err.messages)
    ELSE IF err.code = 11000 THEN UserExists
    ELSE SignupServerError

\* what user.save() throws before the insert: validation, then the pre-save hook
PreSave(doc) ==
    IF SchemaErrors(doc) # <<>> THEN ValidationError(SchemaErrors(doc))
    ELSE IF HookErrors(doc.password) # <<>> THEN WeakPassword(HookErrors(doc.password))
    ELSE NoError

\* the handler up to its first suspension: the field check and User.findOne
SignupFind(body) ==
    /\ phase = "listening"
    /\ IF body.name = <<>> \/ body.email = <<>> \/ Falsy(body.password)
       THEN /\ last' = [kind |-> "signup", body |-> body, found |-> FALSE,
                         created |-> FALSE, resp |-> AllFields]
            /\ pending' = pending
       ELSE /\ db = "connected"
            /\ IF FindOne(body.email) # {}
               THEN /\ last' = [kind |-> "signup", body |-> body, found |-> TRUE,
                                 created |-> FALSE, resp |-> UserExists]
                    /\ pending' = pending
               ELSE /\ BagCardinality(pending) < MaxPending
                    /\ pending' = pending (+) SetToBag({body})
                    /\ last' = last
    /\ UNCHANGED <<phase, db, mongoUri, jwtSecret, clock, ticks, users, held>>

\* the rest of the handler: new User, save (validate, hook, hash, insert),
\* jwt.sign, the 201 answer, or the catch block
SignupSave(body) ==
    /\ phase = "listening" /\ db = "connected"
    /\ BagIn(body, pending)
    /\ pending' = pending (-) SetToBag({body})
    /\ LET doc == NewUser(body)
           pre == PreSave(doc)
       IN IF pre # NoError
          THEN /\ last' = [kind |-> "signup", body |-> body, found |-> FALSE,
                            created |-> FALSE, resp |-> SignupCatch(pre)]
               /\ UNCHANGED <<users, held>>
          ELSE LET salt == Cardinality(users) + 1
                   saved == [_id |-> Cardinality(users) + 1, name |-> doc.name,
                             email |-> doc.email,
                             password |-> BcryptHash(doc.password, salt),
                             role |-> "student"]
                   token == JwtSign(saved._id, jwtSecret)
               IN IF DuplicateKey(doc)
                  THEN /\ last' = [kind |-> "signup", body |-> body, found |-> FALSE,
                                    created |-> FALSE,
                                    resp |-> SignupCatch(DuplicateKeyError)]
                       /\ UNCHANGED <<users, held>>
                  ELSE /\ users' = users \cup {saved}
                       /\ IF token = None
                          THEN /\ last' = [kind |-> "signup", body |-> body,
                                            found |-> FALSE, created |-> TRUE,
                                            resp |-> SignupCatch(SignError)]
                               /\ held' = held
                          ELSE /\ last' = [kind |-> "signup", body |-> body,
                                            found |-> FALSE, created |-> TRUE,
                                            resp |-> ReplyToken(201, token, saved)]
                               /\ held' \in {held, [t |-> "held", token |-> token,
                                                    at |-> clock, sub |-> saved._id]}
    /\ UNCHANGED <<phase, db, mongoUri, jwtSecret, clock, ticks>>

-----------------------------------------------------------------------------
(* routes/auth.js: POST /api/auth/login *)

Login(body) ==
    /\ phase = "listening"
    /\ IF body.email = <<>> \/ Falsy(body.password)
       THEN /\ last' = [kind |-> "login", body |-> body, found |-> FALSE,
                         user |-> None, isMatch |-> "none", resp |-> AllFields]
            /\ held' = held
       ELSE /\ db = "connected"
            /\ IF FindOne(body.email) = {}
               THEN /\ last' = [kind |-> "login", body |-> body, found |-> FALSE,
                                 user |-> None, isMatch |-> "none",
                                 resp |-> InvalidCredentials]
                    /\ held' = held
               ELSE LET user == CHOOSE u \in FindOne(body.email) : TRUE
                        isMatch == ComparePassword(user, body.password)
                        token == JwtSign(user._id, jwtSecret)
                        answered(resp) ==
                            [kind |-> "login", body |-> body, found |-> TRUE,
                             user |-> user, isMatch |-> isMatch, resp |-> resp]
                    IN IF isMatch = "throw"
                       THEN last' = answered(LoginServerError) /\ held' = held
                       ELSE IF isMatch = "false"
                       THEN last' = answered(InvalidCredentials) /\ held' = held
                       ELSE IF token = None
                       THEN last' = answered(LoginServerError) /\ held' = held
                       ELSE /\ last' = answered(ReplyToken(200, token, user))
                            /\ held' \in {held, [t |-> "held", token |-> token,
                                                 at |-> clock, sub |-> user._id]}
    /\ UNCHANGED <<phase, db, mongoUri, jwtSecret, clock, ticks, users, pending>>

-----------------------------------------------------------------------------
(* server.js: authenticateToken and the protected routes *)

\* authHeader.split(' ')
RECURSIVE SplitFrom(_, _)
SplitFrom(s, cur) ==
    IF s = <<>> THEN <<cur>>
    ELSE IF Head(s).c = "sp" THEN <<cur>> \o SplitFrom(Tail(s), <<>>)
    ELSE SplitFrom(Tail(s), Append(cur, Head(s)))

Split(s) == SplitFrom(s, <<>>)

\* an extraction that takes the first field of the header, not the second
ExtractTokenFirstField(header) ==
    IF ~header.present \/ header.value = <<>> THEN <<>>
    ELSE Split(header.value)[1]

\* authHeader && authHeader.split(' ')[1]; the empty sequence stands for every
\* falsy value (undefined, "")
ExtractToken(header) ==
    IF ~header.present \/ header.value = <<>> THEN <<>>
    ELSE IF Len(Split(header.value)) < 2 THEN <<>>
    ELSE Split(header.value)[2]

\* the string handed to jwt.verify, read as a token
AsToken(chunk) == IF Len(chunk) = 1 /\ chunk[1].c = "tok" THEN chunk[1].tok ELSE Junk

\* a middleware that calls next() whatever jwt.verify reports
AuthenticateTokenIgnoringError(header) ==
    LET token == ExtractToken(header)
        v == JwtVerify(AsToken(token), jwtSecret)
    IN IF token = <<>>
       THEN [status |-> 401, steps |-> <<>>, user |-> None]
       ELSE [status |-> 0, steps |-> <<"verify", "next">>, user |-> v.user]

\* authenticateToken: the status it answers with (0: none, next() was called),
\* whether jwt.verify ran, and req.user
AuthenticateToken(header) ==
    LET token == ExtractToken(header)
        v == JwtVerify(AsToken(token), jwtSecret)
    IN IF token = <<>>
       THEN [status |-> 401, steps |-> <<>>, user |-> None]
       ELSE IF v.err # "null"
       THEN [status |-> 403, steps |-> <<"verify">>, user |-> None]
       ELSE [status |-> 0, steps |-> <<"verify", "next">>, user |-> v.user]

\* what the body of a protected request leads its handler to
HandlerInputs == {"ok", "badBody", "failure"}

\* the handlers behind the middleware, by the status they answer: 400 for a body
\* they refuse (fewer than two school ids, too few schools found, an empty
\* message), 500 when the school lookup or the AI service fails, 200 otherwise
Handler(route, input) ==
    CASE input = "badBody" -> 400
      [] input = "failure" -> 500
      [] OTHER -> 200

\* app.post(route, authenticateToken, handler)
Protected(route, header, input) ==
    /\ phase = "listening"
    /\ LET auth == AuthenticateToken(header)
       IN IF auth.status # 0
          THEN /\ input = "ok"
               /\ last' = [kind |-> "protected", route |-> route, header |-> header,
                           at |-> clock, steps |-> auth.steps, user |-> auth.user,
                           status |-> auth.status]
          ELSE /\ db = "connected" \/ input = "badBody"
               /\ last' = [kind |-> "protected", route |-> route, header |-> header,
                           at |-> clock, steps |-> Append(auth.steps, "handler"),
                           user |-> auth.user, status |-> Handler(route, input)]
    /\ UNCHANGED <<phase, db, mongoUri, jwtSecret, clock, ticks, users, pending, held>>

-----------------------------------------------------------------------------

(* The account flows: startup, signup and login under every request body *)

Next ==
    \/ Startup
    \/ ConnectOk
    \/ ConnectFail
    \/ \E body \in SignupBodies : SignupFind(body)
    \/ \E body \in SignupBodies : SignupSave(body)
    \/ \E body \in LoginBodies : Login(body)

Spec == Init /\ [][Next]_vars

(* Token lifetime and the protected routes: time passes, two identities sign
   up, one logs in, and every header reaches the middleware *)

GateSignupBodies ==
    [name : {<<"A">>}, email : {Canonical, <<"x", "@", "b", ".", "x">>},
     password : {Strong}]
GateLoginBodies == [email : {Canonical}, password : {Strong, OtherStrong}]

NextGate ==
    \/ Startup
    \/ ConnectOk
    \/ ConnectFail
    \/ Tick
    \/ \E body \in GateSignupBodies : SignupFind(body)
    \/ \E body \in GateSignupBodies : SignupSave(body)
    \/ \E body \in GateLoginBodies : Login(body)
    \/ \E route \in Routes, header \in Headers, input \in HandlerInputs :
          Protected(route, header, input)

SpecGate == Init /\ [][NextGate]_vars

(* The account flows over a directory that already holds an account whose
   password field is not a bcrypt hash: a string of another length, or a
   60-character string without bcrypt's version prefix *)

Corrupt(length) == [t |-> "text", length |-> length]

SeededUsers ==
    { {[_id |-> 1, name |-> <<"A">>, email |-> Canonical, password |-> stored,
        role |-> "student"]} :
      stored \in {Corrupt(7), Corrupt(HashLength), BcryptHash(Strong, 1)} }

InitSeeded ==
    /\ phase = "starting"
    /\ db = "none"
    /\ mongoUri \in {"absent", "set"}
    /\ jwtSecret \in {"absent", "k1"}
    /\ clock = 0
    /\ ticks = 0
    /\ users \in SeededUsers
    /\ pending = EmptyBag
    /\ held = None
    /\ last = [kind |-> "none"]

SpecSeeded == InitSeeded /\ [][Next]_vars

-----------------------------------------------------------------------------
(* Vocabulary of the properties *)

Range(f) == { f[i] : i \in DOMAIN f }

\* the five strength rules, as the specification states them
RulesViolated(p) ==
    { r \in {"length", "upper", "lower", "digit", "special"} :
        \/ r = "length" /\ (PwLength(p) < 8 \/ PwLength(p) > 128)
        \/ r = "upper" /\ p.U = 0
        \/ r = "lower" /\ p.L = 0
        \/ r = "digit" /\ p.D = 0
        \/ r = "special" /\ p.S = 0 }

\* the rules a response message names
RulesListed(msg) ==
    { r \in {"length", "upper", "lower", "digit", "special"} :
        \/ r = "length" /\ Range(msg) \cap {MsgPwMin, MsgPwMax, HookLen} # {}
        \/ r = "upper" /\ HookUpper \in Range(msg)
        \/ r = "lower" /\ HookLower \in Range(msg)
        \/ r = "digit" /\ HookDigit \in Range(msg)
        \/ r = "special" /\ HookSpecial \in Range(msg) }

\* a signup body with a usable name and an e-mail shaped identity
NameAndEmailFine(body) ==
    /\ \E i \in 1..Len(body.name) : body.name[i] # " "
    /\ body.email \in {Canonical, <<" ", "A", "@", "B", ".", "x", " ">>,
                       <<"x", "@", "b", ".", "x">>}

\* the e-mails that differ from Canonical in letter case or outer whitespace only
CanonicalVariants == {Canonical, <<" ", "A", "@", "B", ".", "x", " ">>}

\* the header holds a first space directly followed by something that is no space
CarriesToken(header) ==
    /\ header.present
    /\ \E i \in 1..(Len(header.value) - 1) :
          /\ header.value[i].c = "sp"
          /\ \A j \in 1..(i - 1) : header.value[j].c # "sp"
          /\ header.value[i + 1].c # "sp"

\* what follows the first space of a header that carries a token
Presented(header) ==
    LET i == CHOOSE k \in 1..(Len(header.value) - 1) :
                 /\ header.value[k].c = "sp"
                 /\ \A j \in 1..(k - 1) : header.value[j].c # "sp"
        a == header.value[i + 1]
    IN IF a.c = "tok" THEN a.tok ELSE Junk

\* the token is one this server signed, unaltered, and not yet expired at ms
ValidAt(token, ms) ==
    /\ token.t = "jwt"
    /\ jwtSecret # "absent"
    /\ token.sig.key = jwtSecret
    /\ token.sig.over = token.payload
    /\ ms \div 1000 < token.payload.exp

HandlerRan == "handler" \in Range(last.steps)
VerifyRan == "verify" \in Range(last.steps)

-----------------------------------------------------------------------------
(* C1: every signup whose password breaks at least one of the five strength
   rules is answered 400 with a message that names exactly the rules it
   breaks, all of them together. *)
C1_AllViolationsListed ==
    (/\ last.kind = "signup"
     /\ ~Falsy(last.body.password)
     /\ NameAndEmailFine(last.body)
     /\ ~last.found
     /\ RulesViolated(CastString(last.body.password)) # {})
    => /\ last.resp.status = 400
       /\ RulesListed(last.resp.msg) = RulesViolated(CastString(last.body.password))

(* C2: a login for an identity without an account and a login for a registered
   identity with a wrong password get the same answer, 400 'Invalid
   credentials', and no token. *)
C2_SameAnswerUnknownOrWrong ==
    (/\ last.kind = "login"
     /\ last.body.email # <<>>
     /\ ~Falsy(last.body.password)
     /\ \/ ~last.found
        \/ /\ last.found
           /\ last.user.password.t = "bcrypt"
           /\ CastString(last.body.password) # last.user.password.secret)
    => /\ last.resp = InvalidCredentials
       /\ last.resp.token = None

(* C3: under every interleaving of signups for one identity at most one
   account exists for it; every well-formed signup that creates no account is
   answered 'User already exists with this email', and no signup that creates
   no account is answered 500. *)
C3_DuplicateSignupIsIdentityTaken ==
    /\ \A u1, u2 \in users : u1.email = u2.email => u1 = u2
    /\ (last.kind = "signup" /\ ~last.created) =>
          /\ last.resp.status # 500
          /\ (/\ ~Falsy(last.body.password)
              /\ NameAndEmailFine(last.body)
              /\ RulesViolated(CastString(last.body.password)) = {})
             => last.resp = UserExists

\* a signup passed the existing-user check, lost the race and was told so
C3_Witness ==
    /\ last.kind = "signup"
    /\ ~last.found /\ ~last.created
    /\ last.resp = UserExists
    /\ \E u \in users : u.email = SetEmail(last.body.email)

-----------------------------------------------------------------------------
(* C4 as stated: a token issued at time t for account s is accepted, yielding
   s, at every time u with t <= u < t + 7 days and is rejected as expired at
   every u >= t + 7 days. *)
C4_SevenDaysFromIssue ==
    held.t = "none" \/
    LET v == JwtVerify(held.token, jwtSecret)
    IN /\ (held.at <= clock /\ clock < held.at + TTLms) =>
              (v.err = "null" /\ v.user.id = ToHexString(held.sub))
       /\ clock >= held.at + TTLms => v.err = "TokenExpiredError"

HeldExpired == held.t # "none" /\ JwtVerify(held.token, jwtSecret).err = "TokenExpiredError"

(* C4 as amended: with the issue time t and the time u of the check both cut
   to whole seconds, the token is accepted, yielding s, when u < t + 7 days
   and is rejected as expired when u >= t + 7 days; a token once rejected as
   expired is rejected as expired ever after. *)
C4_SevenDaysInWholeSeconds ==
    /\ [](held.t = "none" \/
          LET v == JwtVerify(held.token, jwtSecret)
              t == held.at \div 1000
              u == clock \div 1000
          IN /\ held.token.payload.iat = t
             /\ u < t + 7 * 24 * 60 * 60 =>
                   (v.err = "null" /\ v.user.id = ToHexString(held.sub))
             /\ u >= t + 7 * 24 * 60 * 60 => v.err = "TokenExpiredError")
    /\ [][(HeldExpired /\ held' = held) => HeldExpired']_vars

\* a token issued in the middle of a second was presented after it expired
C4_Witness ==
    /\ HeldExpired
    /\ held.at % 1000 # 0
    /\ last.kind = "protected"
    /\ last.header = Header(<<Word("Bearer"), Sp, Tok(held.token)>>)
    /\ last.at = clock
    /\ last.status = 403

-----------------------------------------------------------------------------
(* C5: on a protected route the handler runs only after token verification
   and only when verification succeeded for that request; a request whose
   token is absent, tampered, signed with another key or expired is answered
   401 or 403 and never reaches the handler. *)
C5_VerifyBeforeHandler ==
    last.kind = "protected" =>
       /\ HandlerRan =>
             /\ last.steps = <<"verify", "next", "handler">>
             /\ CarriesToken(last.header)
             /\ ValidAt(Presented(last.header), last.at)
             /\ last.user = Presented(last.header).payload
       /\ ~(CarriesToken(last.header) /\ ValidAt(Presented(last.header), last.at)) =>
             /\ ~HandlerRan
             /\ last.status \in {401, 403}
             /\ last.user = None

\* a request with a valid token reached the handler of a protected route
C5_Witness ==
    /\ last.kind = "protected"
    /\ HandlerRan
    /\ last.status = 200

(* C6 as stated: a protected request is answered 401 without verification
   exactly when the Authorization header is absent; every request with a
   header whose token is malformed, empty, tampered or expired is answered
   403 by verification. *)
C6_MissingHeaderOnly401 ==
    last.kind = "protected" =>
       /\ (last.status = 401 /\ ~VerifyRan) <=> ~last.header.present
       /\ (/\ last.header.present
           /\ ~(CarriesToken(last.header) /\ ValidAt(Presented(last.header), last.at)))
          => (last.status = 403 /\ VerifyRan)

(* C6 as amended: a protected request is answered 401 without verification
   exactly when its header carries no token (no header, or nothing but
   spaces or the end of the header after its first space); every request
   whose header carries a token that is malformed, tampered, signed with
   another key or expired is answered 403 by verification. *)
C6_MissingToken401 ==
    last.kind = "protected" =>
       /\ (last.status = 401 /\ ~VerifyRan) <=> ~CarriesToken(last.header)
       /\ (/\ CarriesToken(last.header)
           /\ ~ValidAt(Presented(last.header), last.at))
          => (last.status = 403 /\ VerifyRan)

\* a header without a token after its scheme was answered 401
C6_Witness ==
    /\ last.kind = "protected"
    /\ last.header = Header(<<Word("Bearer"), Sp>>)
    /\ last.status = 401

-----------------------------------------------------------------------------
(* C7: a login for an account whose stored password is not a well-formed hash
   is answered 500, never 'Invalid credentials', and never with a token. *)
C7_CorruptHashIsServerError ==
    (/\ last.kind = "login"
     /\ last.found
     /\ last.user.password.t = "text")
    => last.resp = LoginServerError

(* C8: without a signing key the process never accepts a request, and no
   request is answered 500 because the key is missing. *)
C8_NoKeyNoListening ==
    /\ jwtSecret = "absent" => phase # "listening"
    /\ (jwtSecret = "absent" /\ last.kind = "signup" /\ last.created)
          => last.resp.status # 500

(* C9: once an account exists for an e-mail, a signup under any case or
   whitespace variant of it is answered 'User already exists with this email'
   and creates nothing, and a login under such a variant with the account's
   password is answered with a token for that account. *)
C9_LookupIgnoresCaseAndPadding ==
    [][\A u \in users : u.email = Canonical =>
          /\ \A body \in SignupBodies :
                (/\ SignupFind(body)
                 /\ body.email \in CanonicalVariants
                 /\ body.name # <<>> /\ ~Falsy(body.password))
                => (last'.resp = UserExists /\ users' = users /\ pending' = pending)
          /\ \A body \in LoginBodies :
                (/\ Login(body)
                 /\ body.email \in CanonicalVariants
                 /\ body.password = u.password.secret)
                => /\ last'.resp.status = 200
                   /\ last'.resp.token # None
                   /\ last'.resp.user.id = ToHexString(u._id)]_vars

\* the same with a signing key configured
C9_LookupWithKey ==
    [][jwtSecret # "absent" => 
       \A u \in users : u.email = Canonical =>
          /\ \A body \in SignupBodies :
                (/\ SignupFind(body)
                 /\ body.email \in CanonicalVariants
                 /\ body.name # <<>> /\ ~Falsy(body.password))
                => (last'.resp = UserExists /\ users' = users /\ pending' = pending)
          /\ \A body \in LoginBodies :
                (/\ Login(body)
                 /\ body.email \in CanonicalVariants
                 /\ body.password = u.password.secret)
                => /\ last'.resp.status = 200
                   /\ last'.resp.token # None
                   /\ last'.resp.user.id = ToHexString(u._id)]_vars

-----------------------------------------------------------------------------
(* C10: every account in the collection stores, as its password, a salted
   bcrypt hash of a secret that satisfies all five strength rules; no account
   stores the plaintext. *)
C10_StoredPasswordsAreHashes ==
    \A u \in users :
          /\ u.password.t = "bcrypt"
          /\ u.password.rounds = 12
          /\ u.password.salt >= 1
          /\ u.password.secret.t = "str"
          /\ RulesViolated(u.password.secret) = {}

\* an account exists and a signup with a weak password has just been refused
C10_Witness ==
    /\ users # {}
    /\ last.kind = "signup"
    /\ RulesViolated(CastString(last.body.password)) # {}
    /\ last.resp.status = 400
    /\ ~last.created

-----------------------------------------------------------------------------
(* C11: a signup request changes the collection only when it is answered 201
   with a token; a signup answered 400 or 500, whatever step failed, leaves
   the collection exactly as it was before the request. *)
C11_ErrorLeavesCollection ==
    [][\A body \in SignupBodies :
          (SignupFind(body) \/ SignupSave(body))
          => (users' # users
                 => /\ last'.kind = "signup" /\ last'.body = body
                    /\ last'.resp.status = 201
                    /\ last'.resp.token # None)]_vars

\* the same with a signing key configured
C11_ErrorLeavesCollectionWithKey ==
    [][jwtSecret # "absent" =>
       \A body \in SignupBodies :
          (SignupFind(body) \/ SignupSave(body))
          => (users' # users
                 => /\ last'.kind = "signup" /\ last'.body = body
                    /\ last'.resp.status = 201
                    /\ last'.resp.token # None)]_vars

====
